---- MODULE Spec2Model ----
(***************************************************************************)
(* Model of the group lifecycle tracker of CV_group_analysis:              *)
(* VideoProcessor (src/src/video_processor.py) driven by a consumer of its *)
(* generator process_video_and_yield_frames (src/app.py).                  *)
(*                                                                         *)
(* The detector, the tracker and DBSCAN are libraries: a frame is modelled *)
(* by what they hand to the code, a sequence of detections each with its   *)
(* tracker id and the cluster label fit_predict gave it.                   *)
(***************************************************************************)
EXTENDS Integers, Sequences, FiniteSets, TLC

(* ------------------------------ bounds --------------------------------- *)

\* The source delivers at most MaxFrames frames (indices 0..MaxFrames-1).
MaxFrames == 32

\* The footage may change only in the ChangeWindow frames that start at a
\* snapshot frame (index mod SnapshotInterval < ChangeWindow); in every
\* other frame the detections are those of the frame before.
ChangeWindow == 3

\* An append to the log file may fail after 0..MaxAppendsBeforeFailure
\* successful appends of the same call.
MaxAppendsBeforeFailure == 1

\* Where the labels are computed from anchor points (SpecCluster), a frame
\* holds at most MaxPoints detections.
MaxPoints == 3

(* -------------------------- program constants -------------------------- *)

\* frame_index % 30
SnapshotInterval == 30

\* len(detections) >= 3
MinDetections == 3

\* DBSCAN(eps=75, min_samples=3)
Eps == 75
MinSamples == 3

\* DBSCAN's noise label (label != -1)
NoiseLabel == -1

\* A tracker id that "if mem.tracker_id" takes as absent.
NoTrack == 0

\* saved_frames_dir as app.py passes it
SavedFramesDir == "output/saved_frames"

(* ------------------------------- state --------------------------------- *)

VARIABLES
    active_groups,  \* self.active_groups: the dict, as its entries in insertion order
    log,            \* the data rows of self.log_file, in file order (the header row apart)
    frame_index,    \* the generator's frame_index
    total_frames,   \* int(cap.get(CAP_PROP_FRAME_COUNT)): what the source reports
    pc,             \* where the generator stands: start, yielded, done, closed, raised
    error,          \* the exception that ended the generator, or "none"
    scene,          \* the detections of the frame read last
    created,        \* history: per key, the start_frame of each insertion into active_groups
    write_failed    \* history: an append to the log file has failed

vars == <<active_groups, log, frame_index, total_frames, pc, error, scene, created,
          write_failed>>

(* ------------------------------ inputs --------------------------------- *)

Det(tid, label) == [tracker_id |-> tid, label |-> label]

\* The frames the footage is made of.  Labels are as DBSCAN(min_samples=3)
\* gives them: numbered from 0 without gaps, every cluster of at least 3
\* points, label 1 possibly met before label 0 in detection order.
Scenes ==
    { <<Det(1, NoiseLabel), Det(2, NoiseLabel)>>,
      <<Det(1, NoiseLabel), Det(2, NoiseLabel), Det(3, NoiseLabel)>>,
      <<Det(1, 0), Det(2, 0), Det(3, 0)>>,
      <<Det(3, 0), Det(NoTrack, 0), Det(1, 0), Det(2, 0), Det(5, NoiseLabel)>>,
      <<Det(1, 0), Det(2, 0), Det(3, 0), Det(4, 1), Det(5, 1), Det(6, 1)>>,
      <<Det(4, 1), Det(5, 1), Det(1, 0), Det(2, 0), Det(3, 0), Det(6, 1)>> }

\* The labels a frame can carry.
GroupIds == 0..1

\* What the source can report as its frame count: nothing, a single frame,
\* the length of the longest footage.
TotalFrameCounts == {0, 1, MaxFrames}

(* ------------------------------ helpers -------------------------------- *)

Keys(ag) == { ag[i].group_id : i \in 1..Len(ag) }

Entry(ag, gid) == ag[CHOOSE i \in 1..Len(ag) : ag[i].group_id = gid]

RECURSIVE Sorted(_)
\* sorted(member_ids)
Sorted(s) ==
    IF s = <<>> THEN <<>>
    ELSE LET m == CHOOSE i \in 1..Len(s) : \A j \in 1..Len(s) : s[i] <= s[j]
         IN  <<s[m]>> \o Sorted(SubSeq(s, 1, m - 1) \o SubSeq(s, m + 1, Len(s)))

RECURSIVE Join(_)
\* "-".join(map(str, ids))
Join(ids) ==
    IF ids = <<>> THEN ""
    ELSE IF Len(ids) = 1 THEN ToString(ids[1])
    ELSE ToString(ids[1]) \o "-" \o Join(Tail(ids))

RECURSIVE SetIteration(_)
\* Iteration order of a set of small non-negative ints: by hash slot, ascending.
SetIteration(S) ==
    IF S = {} THEN <<>>
    ELSE LET m == CHOOSE x \in S : \A y \in S : x <= y
         IN  <<m>> \o SetIteration(S \ {m})

RECURSIVE GroupedKeys(_, _)
\* Keys of grouped_detections in insertion order: the labels other than
\* noise, each at its first occurrence among the detections.
GroupedKeys(dets, seen) ==
    IF dets = <<>> THEN <<>>
    ELSE LET l == Head(dets).label
         IN  IF l = NoiseLabel \/ l \in seen
             THEN GroupedKeys(Tail(dets), seen)
             ELSE <<l>> \o GroupedKeys(Tail(dets), seen \cup {l})

\* grouped_detections[label]
GroupMembers(dets, label) == SelectSeq(dets, LAMBDA d : d.label = label)

\* Mutant of FrameGroups: below the threshold the detections of the frame
\* are taken as one group instead of none.
FrameGroupsOneBelowThreshold(dets) ==
    IF Len(dets) >= MinDetections THEN GroupedKeys(dets, {})
    ELSE IF dets = <<>> THEN <<>> ELSE <<0>>

\* The keys of grouped_detections of a frame; none when clustering is skipped.
FrameGroups(dets) ==
    IF Len(dets) >= MinDetections THEN GroupedKeys(dets, {}) ELSE <<>>

SeqToSet(s) == { s[i] : i \in 1..Len(s) }

\* [mem.tracker_id[0] for mem in group_members if mem.tracker_id]
MemberIds(members) ==
    LET tracked == SelectSeq(members, LAMBDA d : d.tracker_id # NoTrack)
    IN  [i \in 1..Len(tracked) |-> tracked[i].tracker_id]

\* os.path.join(saved_frames_dir, f"frame_{frame_index}_group_{group_id}.jpg")
SnapshotPath(fi, gid) ==
    SavedFramesDir \o "/frame_" \o ToString(fi) \o "_group_" \o ToString(gid) \o ".jpg"

(* ------------------------- VideoProcessor ------------------------------ *)

\* The processor's state while one call runs: the dict, the file, the
\* history of insertions, the appends that still succeed (-1: all), whether
\* an append has failed, whether the call has raised.
Running(ag, lg, cr, budget) ==
    [ag |-> ag, log |-> lg, created |-> cr, budget |-> budget,
     failed |-> FALSE, raised |-> FALSE]

\* Mutant of LogGroupEvent: the failure of the append is caught and passed
\* over (try/except around the write), the call goes on.
LogGroupEventSwallowed(st, row) ==
    IF st.budget = 0
    THEN [st EXCEPT !.failed = TRUE]
    ELSE [st EXCEPT !.log = Append(@, row),
                    !.budget = IF @ > 0 THEN @ - 1 ELSE @]

\* _log_group_event: append one row to the file, or raise.
LogGroupEvent(st, row) ==
    IF st.budget = 0
    THEN [st EXCEPT !.failed = TRUE, !.raised = TRUE]
    ELSE [st EXCEPT !.log = Append(@, row),
                    !.budget = IF @ > 0 THEN @ - 1 ELSE @]

\* Mutant of Upsert: a key that comes back takes up the start_frame of its
\* first lifetime.
UpsertKeepsFirstStart(st, gid, fi) ==
    IF gid \in Keys(st.ag) THEN st
    ELSE [st EXCEPT
            !.ag = Append(@, [group_id |-> gid,
                              start_frame |-> IF st.created[gid] = <<>> THEN fi
                                              ELSE st.created[gid][1],
                              last_seen_frame |-> fi, members |-> <<>>,
                              last_log |-> <<>>]),
            !.created[gid] = Append(@, fi)]

\* if group_id not in self.active_groups: self.active_groups[group_id] = {...}
Upsert(st, gid, fi) ==
    IF gid \in Keys(st.ag) THEN st
    ELSE [st EXCEPT
            !.ag = Append(@, [group_id |-> gid, start_frame |-> fi,
                              last_seen_frame |-> fi, members |-> <<>>,
                              last_log |-> <<>>]),
            !.created[gid] = Append(@, fi)]

\* Mutant of IsSnapshotFrame: the once-per-interval test left out.
IsSnapshotFrameAlways(fi) == fi >= 0

\* frame_index % 30 == 0
IsSnapshotFrame(fi) == fi % SnapshotInterval = 0

\* The continuation row of a group in a snapshot frame.
ContinuationRow(gid, members, fi) ==
    [frame |-> fi, group_id |-> gid, member_count |-> Len(members),
     member_ids |-> Join(Sorted(MemberIds(members))),
     dwell_time_frames |-> 0, saved_frame_path |-> SnapshotPath(fi, gid)]

\* Mutant of SetLastLog: only the first snapshot of a group is recorded.
SetLastLogOnce(ag, gid, row) ==
    [i \in 1..Len(ag) |->
        IF ag[i].group_id = gid /\ ag[i].last_log = <<>>
        THEN [ag[i] EXCEPT !.last_log = <<row>>] ELSE ag[i]]

\* self.active_groups[group_id]['last_log'] = log_entry
SetLastLog(ag, gid, row) ==
    [i \in 1..Len(ag) |->
        IF ag[i].group_id = gid THEN [ag[i] EXCEPT !.last_log = <<row>>] ELSE ag[i]]

\* One pass of the loop over grouped_detections.items().
GroupStep(st, gid, members, fi) ==
    LET st1 == Upsert(st, gid, fi)
    IN  IF IsSnapshotFrame(fi)
        THEN LET row == ContinuationRow(gid, members, fi)
                 st2 == LogGroupEvent(st1, row)
             IN  IF st2.raised THEN st2
                 ELSE [st2 EXCEPT !.ag = SetLastLog(@, gid, row)]
        ELSE st1

RECURSIVE GroupLoop(_, _, _, _)
\* for group_id, group_members in grouped_detections.items()
GroupLoop(st, keys, dets, fi) ==
    IF keys = <<>> \/ st.raised THEN st
    ELSE GroupLoop(GroupStep(st, Head(keys), GroupMembers(dets, Head(keys)), fi),
                   Tail(keys), dets, fi)

\* Mutant of LastCount: the fallback taken even when a snapshot was logged.
LastCountFallback(e) == 0

\* last_log.get("member_count", 0), last_log.get("member_ids", "")
LastCount(e) == IF e.last_log = <<>> THEN 0 ELSE e.last_log[1].member_count
LastIds(e) == IF e.last_log = <<>> THEN "" ELSE e.last_log[1].member_ids

\* Mutant of ClosingRow: the dwell time measured from the last snapshot of
\* the group instead of its start_frame.
ClosingRowSinceSnapshot(e, at, marker) ==
    [frame |-> at, group_id |-> e.group_id, member_count |-> LastCount(e),
     member_ids |-> LastIds(e),
     dwell_time_frames |->
        at - (IF e.last_log = <<>> THEN e.start_frame ELSE e.last_log[1].frame),
     saved_frame_path |-> marker]

\* The closing row of a group: "disappeared" at a frame, "video_end" at the end.
ClosingRow(e, at, marker) ==
    [frame |-> at, group_id |-> e.group_id, member_count |-> LastCount(e),
     member_ids |-> LastIds(e), dwell_time_frames |-> at - e.start_frame,
     saved_frame_path |-> marker]

\* Mutant of Delete: the entry is left in the dict.
DeleteNothing(ag, gid) == ag

\* del self.active_groups[group_id]
Delete(ag, gid) == SelectSeq(ag, LAMBDA e : e.group_id # gid)

\* One pass of the loop over disappeared_groups.
DisappearStep(st, gid, fi) ==
    LET st1 == LogGroupEvent(st, ClosingRow(Entry(st.ag, gid), fi, "disappeared"))
    IN  IF st1.raised THEN st1
        ELSE [st1 EXCEPT !.ag = Delete(@, gid)]

RECURSIVE DisappearLoop(_, _, _)
\* for group_id in disappeared_groups
DisappearLoop(st, gids, fi) ==
    IF gids = <<>> \/ st.raised THEN st
    ELSE DisappearLoop(DisappearStep(st, Head(gids), fi), Tail(gids), fi)

\* Mutant of DisappearedGroups: computed only when the frame has a cluster.
DisappearedWhenClustered(ag, current) ==
    IF current = {} THEN {} ELSE Keys(ag) \ current

\* disappeared_groups = set(self.active_groups.keys()) - current_groups_in_frame
DisappearedGroups(ag, current) == Keys(ag) \ current

\* process_single_frame, from the detections on.
ProcessSingleFrame(st, dets, fi) ==
    LET keys == FrameGroups(dets)
        st1  == GroupLoop(st, keys, dets, fi)
    IN  IF st1.raised THEN st1
        ELSE DisappearLoop(st1,
                 SetIteration(DisappearedGroups(st1.ag, SeqToSet(keys))), fi)

RECURSIVE FinalLoop(_, _, _)
\* for group_id, group_data in self.active_groups.items()
FinalLoop(st, entries, total) ==
    IF entries = <<>> \/ st.raised THEN st
    ELSE FinalLoop(LogGroupEvent(st, ClosingRow(Head(entries), total, "video_end")),
                   Tail(entries), total)

\* Mutant of LogFinalDwellTimes: group_data['last_log'] required, so that
\* only the groups with a snapshot are closed.
LogFinalSnapshottedOnly(st, total) ==
    FinalLoop(st, SelectSeq(st.ag, LAMBDA e : e.last_log # <<>>), total)

\* _log_final_dwell_times
LogFinalDwellTimes(st, total) == FinalLoop(st, st.ag, total)

(* ------------------------------ actions -------------------------------- *)

\* VideoProcessor.__init__ and the generator object, not yet started.
Init ==
    /\ active_groups = <<>>
    /\ log = <<>>
    /\ frame_index = 0
    /\ total_frames \in TotalFrameCounts
    /\ pc = "start"
    /\ error = "none"
    /\ scene = <<>>
    /\ created = [g \in GroupIds |-> <<>>]
    /\ write_failed = FALSE

\* The index of the frame the generator reads when it is resumed.
NextIndex == IF pc = "start" THEN 0 ELSE frame_index + 1

\* Whether the footage may change at frame fi.
MayChange(fi) == fi % SnapshotInterval < ChangeWindow

FailPoints == (-1)..MaxAppendsBeforeFailure

\* next(generator) when cap.read() returns the frame with detections dets:
\* frame_index += 1 (when resumed), process_single_frame,
\* frame_index / total_frames, yield.
ReadFrame(dets, budget) ==
    /\ pc \in {"start", "yielded"}
    /\ LET st == ProcessSingleFrame(
                     Running(active_groups, log, created, budget), dets, NextIndex)
       IN  /\ active_groups' = st.ag
           /\ log' = st.log
           /\ created' = st.created
           /\ write_failed' = st.failed
           /\ scene' = dets
           /\ frame_index' = NextIndex
           /\ IF st.raised
              THEN pc' = "raised" /\ error' = "OSError"
              ELSE IF total_frames = 0
              THEN pc' = "raised" /\ error' = "ZeroDivisionError"
              ELSE pc' = "yielded" /\ error' = "none"
    /\ UNCHANGED total_frames

\* next(generator), the source has a frame.
NextFrame ==
    /\ NextIndex < MaxFrames
    /\ \E dets \in Scenes, budget \in FailPoints :
        /\ MayChange(NextIndex) \/ dets = scene
        /\ ReadFrame(dets, budget)

\* next(generator), the source is exhausted: frame_index += 1 (when resumed),
\* cap.read() fails, cap.release(), _log_final_dwell_times(total_frames).
Exhausted ==
    /\ pc \in {"start", "yielded"}
    /\ \E budget \in FailPoints :
        LET st == LogFinalDwellTimes(
                      Running(active_groups, log, created, budget), total_frames)
        IN  /\ active_groups' = st.ag
            /\ log' = st.log
            /\ created' = st.created
            /\ write_failed' = st.failed
            /\ IF st.raised
               THEN pc' = "raised" /\ error' = "OSError"
               ELSE pc' = "done" /\ error' = "none"
    /\ frame_index' = NextIndex
    /\ UNCHANGED <<total_frames, scene>>

\* The consumer stops iterating: the suspended generator is closed at its
\* yield (GeneratorExit); nothing after the loop runs.
ConsumerStops ==
    /\ pc = "yielded"
    /\ pc' = "closed"
    /\ error' = "GeneratorExit"
    /\ UNCHANGED <<active_groups, log, frame_index, total_frames, scene, created,
                   write_failed>>

Next == NextFrame \/ Exhausted \/ ConsumerStops

Spec == Init /\ [][Next]_vars

(* --------------------- the scenario of the spec ------------------------ *)

\* The frame at which the scenario's group scatters.
ScenarioScatterFrame == 2 * SnapshotInterval

\* Track ids 1, 2, 3 in one cluster with label 0 in the frames before
\* ScenarioScatterFrame, the same three detections without a cluster in it.
ScenarioFootage(fi) ==
    IF fi < ScenarioScatterFrame
    THEN <<Det(1, 0), Det(2, 0), Det(3, 0)>>
    ELSE <<Det(1, NoiseLabel), Det(2, NoiseLabel), Det(3, NoiseLabel)>>

\* next(generator), the source has the next frame of the scenario.
ScenarioFrame ==
    /\ NextIndex <= ScenarioScatterFrame
    /\ \E budget \in FailPoints : ReadFrame(ScenarioFootage(NextIndex), budget)

ScenarioNext == ScenarioFrame \/ Exhausted \/ ConsumerStops

SpecScenario == Init /\ [][ScenarioNext]_vars

(* ------------------- labels computed from anchor points ---------------- *)

\* The anchor points (bottom centre of the box) a detection can have.
Anchors == { <<0, 0>>, <<50, 0>>, <<100, 0>>, <<50, 60>> }

\* The anchor points of the detections of a frame, in detection order.
PointSeqs == UNION { [1..n -> Anchors] : n \in 0..MaxPoints }

\* Euclidean distance, squared.
DistSq(p, q) == (p[1] - q[1]) * (p[1] - q[1]) + (p[2] - q[2]) * (p[2] - q[2])

\* The eps-neighbourhood of point i, the point itself included.
Neighbours(points, i) ==
    { j \in 1..Len(points) : DistSq(points[i], points[j]) <= Eps * Eps }

\* Mutant of IsCore: the point itself not counted on the threshold's side,
\* so that two points next to each other are core points.
IsCoreOffByOne(points, i) == Cardinality(Neighbours(points, i)) >= MinSamples - 1

\* A core sample: at least min_samples points in its neighbourhood.
IsCore(points, i) == Cardinality(Neighbours(points, i)) >= MinSamples

RECURSIVE Reach(_, _, _)
\* The points a cluster grown from the set S takes: S and, again and again,
\* the still unlabelled neighbours of its core points.
Reach(points, labels, S) ==
    LET more == { v \in 1..Len(points) :
                    /\ labels[v] = NoiseLabel
                    /\ \E u \in S : IsCore(points, u) /\ v \in Neighbours(points, u) }
    IN  IF more \subseteq S THEN S ELSE Reach(points, labels, S \cup more)

RECURSIVE DbscanFrom(_, _, _, _)
\* DBSCAN's pass over the points from index i on: every unlabelled core
\* point starts the cluster with the next label.
DbscanFrom(points, labels, i, label) ==
    IF i > Len(points) THEN labels
    ELSE IF labels[i] # NoiseLabel \/ ~IsCore(points, i)
    THEN DbscanFrom(points, labels, i + 1, label)
    ELSE LET cluster == Reach(points, labels, {i})
         IN  DbscanFrom(points,
                        [j \in 1..Len(points) |->
                            IF j \in cluster THEN label ELSE labels[j]],
                        i + 1, label + 1)

\* dbscan.fit_predict(points)
FitPredict(points) ==
    DbscanFrom(points, [j \in 1..Len(points) |-> NoiseLabel], 1, 0)

\* The detections of a frame with these anchor points: tracker id i for the
\* i-th, the label fit_predict gives it.
Detections(points) ==
    [i \in 1..Len(points) |-> Det(i, FitPredict(points)[i])]

\* The frames there are: the detections of every placement, labelled.
ClusteredFrames == { Detections(points) : points \in PointSeqs }

\* next(generator), the source has a frame, in one of the first frames.
ClusterFrame ==
    /\ NextIndex < ChangeWindow
    /\ \E dets \in ClusteredFrames, budget \in FailPoints :
        ReadFrame(dets, budget)

ClusterNext == ClusterFrame \/ Exhausted \/ ConsumerStops

SpecCluster == Init /\ [][ClusterNext]_vars

(* ------------------------- reading the log ----------------------------- *)

IsClosing(r) == r.saved_frame_path \in {"disappeared", "video_end"}

IsContinuation(r) == ~IsClosing(r)

\* The closing rows of group g among the first n rows of lg.
ClosingRows(lg, g, n) ==
    { i \in 1..n : lg[i].group_id = g /\ IsClosing(lg[i]) }

\* The cluster labels of a frame, noise apart.
ClusterLabels(dets) == { dets[i].label : i \in 1..Len(dets) } \ {NoiseLabel}

\* The track ids of the members of cluster g in a frame.
ClusterTrackIds(dets, g) ==
    { dets[i].tracker_id : i \in { j \in 1..Len(dets) : dets[j].label = g } } \ {NoTrack}

\* The most recent continuation row of g before row i that belongs to the
\* lifetime row i closes (no closing row of g in between); 0 when none.
LastContinuation(lg, g, i) ==
    LET c == { j \in 1..(i - 1) :
                 /\ lg[j].group_id = g
                 /\ IsContinuation(lg[j])
                 /\ \A k \in (j + 1)..(i - 1) : ~(lg[k].group_id = g /\ IsClosing(lg[k])) }
    IN  IF c = {} THEN 0 ELSE CHOOSE j \in c : \A k \in c : k <= j

\* The generator has ended: exhausted, closed by its consumer, or raised.
RunOver == pc \in {"done", "closed", "raised"}

\* This step is a next() in which process_single_frame returned.
FrameProcessed ==
    /\ pc \in {"start", "yielded"}
    /\ frame_index' = NextIndex
    /\ (pc' = "yielded" \/ error' = "ZeroDivisionError")

(* ------------------------------ claims --------------------------------- *)

\* C1: every insertion of a key into active_groups gets exactly one closing
\* row ("disappeared" or "video_end"): never more closing rows of a key than
\* insertions of it, at most the open lifetime without one while the run
\* lasts, and none without one once the run is over.
C1_ExactlyOneClosingRow ==
    \A g \in GroupIds :
        LET closed == Cardinality(ClosingRows(log, g, Len(log)))
        IN  /\ closed <= Len(created[g])
            /\ closed >= Len(created[g]) - 1
            /\ RunOver => closed = Len(created[g])

\* C1, as far as the code goes: exactly one closing row per insertion in the
\* runs that end by exhaustion of the source.
ClosedExactlyOnceWhenDone ==
    \A g \in GroupIds :
        LET closed == Cardinality(ClosingRows(log, g, Len(log)))
        IN  /\ closed <= Len(created[g])
            /\ closed >= Len(created[g]) - 1
            /\ (g \notin Keys(active_groups) \/ pc = "done") => closed = Len(created[g])

\* C2: in every closing row dwell_time_frames is the row's frame minus the
\* start_frame of the insertion it closes (the k-th closing row of a key
\* closes its k-th insertion), and is not negative.
C2_DwellIsSpan ==
    \A i \in 1..Len(log) :
        IsClosing(log[i]) =>
            LET g == log[i].group_id
                k == Cardinality(ClosingRows(log, g, i))
            IN  /\ k <= Len(created[g])
                /\ log[i].dwell_time_frames = log[i].frame - created[g][k]
                /\ log[i].dwell_time_frames >= 0

\* C2 without its sign: dwell_time_frames is the row's frame minus start_frame.
DwellIsFrameMinusStart ==
    \A i \in 1..Len(log) :
        IsClosing(log[i]) =>
            LET g == log[i].group_id
                k == Cardinality(ClosingRows(log, g, i))
            IN  /\ k <= Len(created[g])
                /\ log[i].dwell_time_frames = log[i].frame - created[g][k]

\* C3: however the frame loop stops, finalization runs: once the run is over
\* every group still in active_groups has its "video_end" row, the last row
\* of that group.
C3_FinalizationAlwaysRuns ==
    RunOver =>
        \A k \in 1..Len(active_groups) :
            \E i \in 1..Len(log) :
                /\ log[i].group_id = active_groups[k].group_id
                /\ log[i].saved_frame_path = "video_end"
                /\ \A j \in (i + 1)..Len(log) : log[j].group_id # log[i].group_id

\* C4: a group that is active before frame n and has no cluster in frame n
\* gets exactly one "disappeared" row with frame = n during frame n and is
\* out of active_groups when process_single_frame returns.
C4_TerminatedInSameFrame ==
    [][FrameProcessed =>
        \A g \in Keys(active_groups) \ ClusterLabels(scene') :
            /\ Cardinality({ i \in (Len(log) + 1)..Len(log') :
                               /\ log'[i].group_id = g
                               /\ log'[i].saved_frame_path = "disappeared"
                               /\ log'[i].frame = frame_index' }) = 1
            /\ Cardinality({ i \in (Len(log) + 1)..Len(log') :
                               log'[i].group_id = g }) = 1
            /\ g \notin Keys(active_groups')]_vars

\* C4's case: a frame without clustering (fewer than 3 detections) has just
\* terminated a group.
C4_Witness ==
    /\ pc = "yielded"
    /\ Len(scene) < MinDetections
    /\ \E i \in 1..Len(log) :
        /\ log[i].saved_frame_path = "disappeared"
        /\ log[i].frame = frame_index
        /\ log[i].group_id \notin Keys(active_groups)

\* C5: at the end of input every group still in active_groups gets exactly
\* one row, with frame = total_frames, marker "video_end", dwell_time_frames
\* = total_frames - start_frame and the member_count and member_ids of the
\* last continuation row of its lifetime (0 and "" without one); no other
\* row is written.
C5_EndOfStreamRows ==
    [][(pc # "done" /\ pc' = "done") =>
        /\ Len(log') = Len(log) + Len(active_groups)
        /\ \A k \in 1..Len(active_groups) :
            LET e    == active_groups[k]
                rows == { i \in (Len(log) + 1)..Len(log') : log'[i].group_id = e.group_id }
                last == LastContinuation(log, e.group_id, Len(log) + 1)
            IN  /\ Cardinality(rows) = 1
                /\ \A i \in rows :
                    /\ log'[i].frame = total_frames
                    /\ log'[i].saved_frame_path = "video_end"
                    /\ log'[i].dwell_time_frames = total_frames - e.start_frame
                    /\ log'[i].member_count = (IF last = 0 THEN 0 ELSE log[last].member_count)
                    /\ log'[i].member_ids = (IF last = 0 THEN "" ELSE log[last].member_ids)]_vars

\* C5's case: the source is exhausted with two groups active, one of them
\* with a snapshot, and the rows carry a dwell time above zero.
C5_Witness ==
    /\ pc = "done"
    /\ Len(active_groups) = 2
    /\ \E i, j \in 1..Len(log) :
        /\ log[i].saved_frame_path = "video_end"
        /\ log[j].saved_frame_path = "video_end"
        /\ log[i].frame = total_frames
        /\ log[i].dwell_time_frames > 0
        /\ log[i].member_count >= MinDetections
        /\ log[j].member_count = 0

\* C6: every continuation row has a frame that is a multiple of the snapshot
\* interval (30) and dwell_time_frames = 0.
C6_ContinuationOnlyAtInterval ==
    \A i \in 1..Len(log) :
        IsContinuation(log[i]) =>
            /\ log[i].frame % SnapshotInterval = 0
            /\ log[i].dwell_time_frames = 0

\* C6's case: a continuation row written at frame 30, after frames that
\* wrote none.
C6_Witness ==
    \E i \in 1..Len(log) :
        /\ IsContinuation(log[i])
        /\ log[i].frame = SnapshotInterval
        /\ created[log[i].group_id][Len(created[log[i].group_id])] \notin {0, SnapshotInterval}

\* C7: in a frame n with n mod 30 = 0 every group matched or created gets
\* exactly one row in that frame, the continuation row (frame n, dwell 0,
\* marker the path of frame_{n}_group_{id}), and that row is the group's
\* last_log afterwards.
C7_SnapshotRowPerGroup ==
    [][(FrameProcessed /\ frame_index' % SnapshotInterval = 0) =>
        \A g \in ClusterLabels(scene') :
            LET rows == { i \in (Len(log) + 1)..Len(log') : log'[i].group_id = g }
            IN  /\ Cardinality(rows) = 1
                /\ g \in Keys(active_groups')
                /\ \A i \in rows :
                    /\ log'[i].frame = frame_index'
                    /\ log'[i].dwell_time_frames = 0
                    /\ log'[i].saved_frame_path =
                         SavedFramesDir \o "/frame_" \o ToString(frame_index')
                            \o "_group_" \o ToString(g) \o ".jpg"
                    /\ Entry(active_groups', g).last_log = <<log'[i]>>]_vars

\* C7's case: a group snapshotted at frame 0 is snapshotted again at frame
\* 30, and the later row has replaced the earlier one as its last_log.
C7_Witness ==
    /\ pc = "yielded"
    /\ frame_index = SnapshotInterval
    /\ \E k \in 1..Len(active_groups) :
        /\ active_groups[k].start_frame = 0
        /\ active_groups[k].last_log # <<>>
        /\ active_groups[k].last_log[1].frame = SnapshotInterval
        /\ \E i \in 1..Len(log) :
            /\ log[i].group_id = active_groups[k].group_id
            /\ log[i].frame = 0
            /\ IsContinuation(log[i])
            /\ log[i].member_count # active_groups[k].last_log[1].member_count

\* C8: a termination row carries the member_count and member_ids of the most
\* recent continuation row of the lifetime it closes, and 0 and "" when that
\* lifetime has none.
C8_TerminationMembersFromLastSnapshot ==
    \A i \in 1..Len(log) :
        log[i].saved_frame_path = "disappeared" =>
            LET last == LastContinuation(log, log[i].group_id, i)
            IN  IF last = 0
                THEN log[i].member_count = 0 /\ log[i].member_ids = ""
                ELSE /\ log[i].member_count = log[last].member_count
                     /\ log[i].member_ids = log[last].member_ids

\* C8's case: one termination row of a group that was never snapshotted, and
\* one of a group snapshotted twice with different members, which carries
\* those of the second snapshot.
C8_Witness ==
    \E i, j \in 1..Len(log) :
        /\ log[i].saved_frame_path = "disappeared"
        /\ log[i].member_count = 0
        /\ log[i].member_ids = ""
        /\ log[j].saved_frame_path = "disappeared"
        /\ LastContinuation(log, log[j].group_id, j) # 0
        /\ \E a \in 1..(j - 1) :
            /\ a < LastContinuation(log, log[j].group_id, j)
            /\ log[a].group_id = log[j].group_id
            /\ IsContinuation(log[a])
            /\ log[a].member_count # log[j].member_count
            /\ ClosingRows(log, log[j].group_id, j - 1) = {}

\* C9: after a frame every group matched in it has last_seen_frame = that
\* frame and members = the track ids of its cluster in that frame, and its
\* start_frame is still the frame of its creation.
C9_MatchedGroupsUpdated ==
    pc = "yielded" =>
        \A k \in 1..Len(active_groups) :
            LET e == active_groups[k]
            IN  e.group_id \in ClusterLabels(scene) =>
                    /\ e.last_seen_frame = frame_index
                    /\ SeqToSet(e.members) = ClusterTrackIds(scene, e.group_id)
                    /\ e.start_frame = created[e.group_id][Len(created[e.group_id])]

\* C9, as far as the code goes: a matched group keeps the start_frame of its
\* creation, a created one has start_frame = the frame.
StartFrameIsCreationFrame ==
    \A k \in 1..Len(active_groups) :
        LET e == active_groups[k]
        IN  /\ created[e.group_id] # <<>>
            /\ e.start_frame = created[e.group_id][Len(created[e.group_id])]
            /\ e.start_frame <= frame_index

\* C10: when process_single_frame has returned, the keys of active_groups
\* are exactly the cluster labels of the frame it processed.
C10_StoreMatchesFrame ==
    (pc = "yielded" \/ error = "ZeroDivisionError") =>
        Keys(active_groups) = ClusterLabels(scene)

\* C10's case: of two active groups one has just failed to match and is
\* gone, the other has matched and stays.
C10_Witness ==
    /\ pc = "yielded"
    /\ Keys(active_groups) = {0}
    /\ \E i \in 1..Len(log) :
        /\ log[i].frame = frame_index
        /\ log[i].group_id = 1
        /\ log[i].saved_frame_path = "disappeared"

\* The progress value frame_index / total_frames as the pair it is made of.
\* n1/d1 < n2/d2, both denominators other than 0.
ProgressLess(n1, d1, n2, d2) == n1 * d1 * d2 * d2 < n2 * d2 * d1 * d1

\* 0 <= n/d <= 1
ProgressInUnit(n, d) ==
    /\ d # 0
    /\ 0 <= n * d
    /\ n * d <= d * d

C12_UntrackedNotCounted ==
    pc = "yielded" =>
        \A i \in 1..Len(log) :
            (IsContinuation(log[i]) /\ log[i].frame = frame_index) =>
                /\ log[i].member_ids =
                     Join(Sorted(SetIteration(ClusterTrackIds(scene, log[i].group_id))))
                /\ log[i].member_count =
                     Cardinality(ClusterTrackIds(scene, log[i].group_id))

\* C12, as far as the code goes: member_ids lists the track ids of the
\* cluster, the detections without one left out, and the frame goes on.
MemberIdsListTracked ==
    pc = "yielded" =>
        \A i \in 1..Len(log) :
            (IsContinuation(log[i]) /\ log[i].frame = frame_index) =>
                log[i].member_ids =
                    Join(Sorted(SetIteration(ClusterTrackIds(scene, log[i].group_id))))

\* C13: the rows of the log are in non-decreasing frame order, the
\* "video_end" rows included.
C13_FramesNonDecreasing ==
    \A i \in 1..(Len(log) - 1) : log[i].frame <= log[i + 1].frame

\* C13, as far as the code goes: the rows the frames write are in
\* non-decreasing frame order.
FrameRowsNonDecreasing ==
    \A i \in 1..(Len(log) - 1) :
        log[i + 1].saved_frame_path # "video_end" => log[i].frame <= log[i + 1].frame

\* C14: every frame read yields a progress value, the values lie in [0,1]
\* and each is above the one before.
C14_ProgressMonotoneInUnit ==
    [][FrameProcessed =>
        /\ pc' = "yielded"
        /\ ProgressInUnit(frame_index', total_frames')
        /\ (pc = "yielded" =>
               ProgressLess(frame_index, total_frames, frame_index', total_frames'))]_vars

\* C14, as far as the code goes: the values that are yielded increase.
ProgressIncreases ==
    [][(FrameProcessed /\ pc = "yielded" /\ pc' = "yielded") =>
        ProgressLess(frame_index, total_frames, frame_index', total_frames')]_vars

\* C15: with track ids 1, 2, 3 in cluster 0 at frames 0..59 and no cluster
\* at frame 60, the log holds, in this order and nothing else: a continuation
\* row at frame 0 (member_count 3, member_ids "1-2-3", dwell 0), a
\* continuation row at frame 30, a "disappeared" row at frame 60 with
\* dwell_time_frames = 60.
C15_ScenarioLog ==
    pc = "yielded" =>
        /\ Len(log) = (IF frame_index < 30 THEN 1 ELSE IF frame_index < 60 THEN 2 ELSE 3)
        /\ \A i \in 1..Len(log) : log[i].group_id = 0
        /\ log[1].frame = 0
        /\ log[1].member_count = 3
        /\ log[1].member_ids = "1-2-3"
        /\ log[1].dwell_time_frames = 0
        /\ IsContinuation(log[1])
        /\ frame_index >= 30 =>
            /\ log[2].frame = 30
            /\ log[2].dwell_time_frames = 0
            /\ IsContinuation(log[2])
        /\ frame_index >= 60 =>
            /\ log[3].frame = 60
            /\ log[3].dwell_time_frames = 60
            /\ log[3].saved_frame_path = "disappeared"

\* C15's case: frame 60 has been processed and the log has its three rows.
C15_Witness ==
    /\ pc = "yielded"
    /\ frame_index = 60
    /\ Len(log) = 3
    /\ active_groups = <<>>

\* C16: no group is created or kept for fewer than 3 detections: every key
\* in active_groups after a frame has at least 3 detections of that frame in
\* its cluster, and every continuation row counts at least 3 members.
C16_GroupsHaveThreeMembers ==
    /\ (pc = "yielded" \/ error = "ZeroDivisionError") =>
        \A k \in 1..Len(active_groups) :
            Cardinality({ i \in 1..Len(scene) :
                            scene[i].label = active_groups[k].group_id }) >= 3
    /\ \A i \in 1..Len(log) : IsContinuation(log[i]) => log[i].member_count >= 3

\* C16's case: a group of three created at frame 0 is kept at frame 1.
C16_Witness ==
    /\ pc = "yielded"
    /\ frame_index = 1
    /\ Len(active_groups) = 1
    /\ active_groups[1].start_frame = 0
    /\ Cardinality({ i \in 1..Len(scene) : scene[i].label = 0 }) = 3

\* Whether the sequence s is the beginning of the sequence t.
IsPrefix(s, t) == Len(s) <= Len(t) /\ SubSeq(t, 1, Len(s)) = s

\* C17: a failure of the log append is fatal: a step in which an append
\* fails ends with the error raised out of the generator, the rows written
\* before it are still in the log, unchanged, and the step writes nothing
\* after the failed append: only the first rows the step would have written,
\* as many as were appended before the failure.
C17_AppendFailureFatal ==
    [][ /\ IsPrefix(log, log')
        /\ write_failed' =>
            /\ pc' = "raised" /\ error' = "OSError"
            /\ Len(log') < Len(log) + MaxAppendsBeforeFailure + 1
            /\ \E whole \in
                 { ProcessSingleFrame(Running(active_groups, log, created, -1),
                                      scene', NextIndex).log,
                   LogFinalDwellTimes(Running(active_groups, log, created, -1),
                                      total_frames).log } :
                 IsPrefix(log', whole) /\ log' # whole
        /\ write_failed => log' = log ]_vars

\* C17's case: frame 0 has two groups to log, the first row is written, the
\* append of the second fails and the run is over with the error.
C17_Witness ==
    /\ pc = "raised"
    /\ error = "OSError"
    /\ write_failed
    /\ frame_index = 0
    /\ Len(scene) > 0
    /\ Len(log) = 1

\* C19: when end-of-stream finalization has completed, active_groups holds
\* no group (so that nothing later on the same VideoProcessor closes a group
\* a second time).
C19_FinalizationEmptiesStore ==
    pc = "done" => active_groups = <<>>

\* C20: a key that comes back after its termination starts a fresh lifetime:
\* the closing row of a later lifetime of a key measures dwell_time_frames
\* from the frame that lifetime was created at, a frame after the previous
\* termination, and takes member_count and member_ids from a continuation
\* row of that lifetime, 0 and "" when it has none; the entry of a key that
\* came back has start_frame = the frame it came back at and no snapshot
\* older than that.
C20_KeyReuseFreshLifetime ==
    /\ \A i \in 1..Len(log) :
        LET g == log[i].group_id
            k == Cardinality(ClosingRows(log, g, i))
            last == LastContinuation(log, g, i)
        IN  (IsClosing(log[i]) /\ k > 1) =>
                /\ k <= Len(created[g])
                /\ log[i].dwell_time_frames = log[i].frame - created[g][k]
                /\ \A j \in ClosingRows(log, g, i - 1) : log[j].frame < created[g][k]
                /\ IF last = 0
                   THEN log[i].member_count = 0 /\ log[i].member_ids = ""
                   ELSE /\ log[last].frame >= created[g][k]
                        /\ log[i].member_count = log[last].member_count
                        /\ log[i].member_ids = log[last].member_ids
    /\ \A a \in 1..Len(active_groups) :
        LET e == active_groups[a]
            g == e.group_id
        IN  Len(created[g]) > 1 =>
                /\ e.start_frame = created[g][Len(created[g])]
                /\ \A j \in ClosingRows(log, g, Len(log)) :
                       log[j].saved_frame_path = "disappeared" => log[j].frame < e.start_frame
                /\ e.last_log # <<>> => e.last_log[1].frame >= e.start_frame

\* C20's case: a key snapshotted in its first lifetime is terminated, comes
\* back, and its second lifetime is closed without a snapshot of its own:
\* the closing row has 0 members and its dwell time from the second creation.
C20_Witness ==
    \E i \in 1..Len(log) :
        LET g == log[i].group_id
        IN  /\ IsClosing(log[i])
            /\ Cardinality(ClosingRows(log, g, i)) = 2
            /\ log[i].member_count = 0
            /\ log[i].dwell_time_frames = log[i].frame - created[g][2]
            /\ created[g][2] > created[g][1]
            /\ \E j \in 1..(i - 1) :
                /\ log[j].group_id = g
                /\ IsContinuation(log[j])
                /\ log[j].member_count > 0

====
